---- MODULE Spec2Model ----
(***************************************************************************)
(* Model of the vehicle-information-service client (VISClient, lib.rs).    *)
(*                                                                         *)
(* A VISClient owns one websocket connection.  Every operation (get,       *)
(* subscribe_raw, subscribe, unsubscribe_all) takes the client by value,   *)
(* splits the connection into sink and stream, sends one request on the    *)
(* sink and attaches a filter_map closure to the stream.  One step of the  *)
(* model is either the start of an operation (everything up to and         *)
(* including the send) or the delivery of one inbound event of the         *)
(* websocket stream (a message, the end of the stream, or a stream error)  *)
(* to the closure and to the consumer of the filtered stream.              *)
(***************************************************************************)
EXTENDS Integers, Sequences, FiniteSets, TLC

\* Bounds of the model: inbound stream events (messages, then possibly the
\* end of the stream) per connection, connections, and events per connection
\* when several connections run side by side.
MaxFrames == 3
MaxConn == 2
MaxFramesMulti == 2

Conns == 1 .. MaxConn

\* ---------------------------------------------------------------------
\* JSON values carried in "value" fields, and Rust values of the caller's
\* target type T.
JNull == [j |-> "null", n |-> 0]
JNum(n) == [j |-> "num", n |-> n]
JStr == [j |-> "str", n |-> 0]
JsonValues == {JNull, JNum(1), JStr}

\* The caller's type parameter T is Option^k<u32>; k is the nesting depth.
TargetTypes == {0, 1}

RNone == [ty |-> "None"]
RSome(x) == [ty |-> "Some", v |-> x]
RU32(n) == [ty |-> "u32", n |-> n]
DeOk(x) == [ok |-> TRUE, val |-> x]
DeErr == [ok |-> FALSE, val |-> RNone]

\* serde_json::from_value::<Option^k<u32>>(v): Option<_> maps JSON null to
\* None and anything else to Some(inner); u32 accepts only a number.
RECURSIVE FromValue(_, _)
FromValue(k, v) ==
    IF k = 0
    THEN IF v.j = "num" THEN DeOk(RU32(v.n)) ELSE DeErr
    ELSE IF v.j = "null"
         THEN DeOk(RNone)
         ELSE LET r == FromValue(k - 1, v)
              IN IF r.ok THEN DeOk(RSome(r.val)) ELSE DeErr

\* ---------------------------------------------------------------------
\* Identifiers.
FrameReqIds == {1, 2}
SubIds == {"S1", "S2"}
Paths == {"Private.Example.Interval"}
\* Option<Filters> of subscribe and subscribe_raw.
Filters == {"None"}

\* A generator that stops advancing after its first id.
ReqIDDefaultStuck(gen) == IF gen = 0 THEN 1 ELSE gen

\* ReqID::default(): the next request id of the process-wide generator,
\* distinct from every id it returned before (gen counts the ids issued).
ReqIDDefault(gen) == gen + 1

\* ---------------------------------------------------------------------
\* Envelope codec.  Rust values: Action and ActionSuccessResponse.  Wire
\* values: JSON objects, one per text frame.
ActionGet(p, r) == [tag |-> "Get", path |-> p, request_id |-> r]
ActionSubscribe(p, f, r) ==
    [tag |-> "Subscribe", path |-> p, filters |-> f, request_id |-> r]
ActionUnsubscribeAll(r) == [tag |-> "UnsubscribeAll", request_id |-> r]

\* serde_json::to_string(&action)
ToJsonString(a) ==
    CASE a.tag = "Get" ->
           [action |-> "get", path |-> a.path, requestId |-> a.request_id]
      [] a.tag = "Subscribe" ->
           [action |-> "subscribe", path |-> a.path, filters |-> a.filters,
            requestId |-> a.request_id]
      [] a.tag = "UnsubscribeAll" ->
           [action |-> "unsubscribeAll", requestId |-> a.request_id]

JsonGet(r, v) == [action |-> "get", requestId |-> r, value |-> v]
JsonSubscribe(r, s) == [action |-> "subscribe", requestId |-> r, subscriptionId |-> s]
JsonSubscription(s, v) == [action |-> "subscription", subscriptionId |-> s, value |-> v]
JsonUnsubscribeAll(r) == [action |-> "unsubscribeAll", requestId |-> r]
\* A text payload that is no success response (for instance an error response).
JsonMalformed == [action |-> "error"]

RespGet(r, v) == [tag |-> "Get", request_id |-> r, value |-> v]
RespSubscribe(r, s) == [tag |-> "Subscribe", request_id |-> r, subscription_id |-> s]
RespSubscription(s, v) == [tag |-> "Subscription", subscription_id |-> s, value |-> v]
RespUnsubscribeAll(r) == [tag |-> "UnsubscribeAll", request_id |-> r]

\* serde_json::from_str::<ActionSuccessResponse>(&txt)
FromStr(txt) ==
    CASE txt.action = "get" ->
           [ok |-> TRUE, resp |-> RespGet(txt.requestId, txt.value)]
      [] txt.action = "subscribe" ->
           [ok |-> TRUE, resp |-> RespSubscribe(txt.requestId, txt.subscriptionId)]
      [] txt.action = "subscription" ->
           [ok |-> TRUE, resp |-> RespSubscription(txt.subscriptionId, txt.value)]
      [] txt.action = "unsubscribeAll" ->
           [ok |-> TRUE, resp |-> RespUnsubscribeAll(txt.requestId)]
      [] OTHER -> [ok |-> FALSE, resp |-> RespUnsubscribeAll(0)]

\* ---------------------------------------------------------------------
\* websocket::OwnedMessage
Text(txt) == [kind |-> "Text", txt |-> txt]
NonText(k) == [kind |-> k]
NonTextKinds == {"Binary", "Ping", "Pong", "Close"}

TextPayloads ==
    {JsonGet(r, v) : r \in FrameReqIds, v \in JsonValues}
    \cup {JsonSubscribe(r, s) : r \in FrameReqIds, s \in SubIds}
    \cup {JsonSubscription(s, v) : s \in SubIds, v \in JsonValues}
    \cup {JsonUnsubscribeAll(r) : r \in FrameReqIds}
    \cup {JsonMalformed}

Messages == {Text(t) : t \in TextPayloads} \cup {NonText(k) : k \in NonTextKinds}

\* How the inbound stream can stop: Ok(Ready(None)) or Err(WebSocketError).
Closings == {"ended", "error"}

\* Items of a returned stream, as its consumer sees them.
Item(x) == [ok |-> TRUE, item |-> x, err |-> "none"]
ErrItem(e) == [ok |-> FALSE, item |-> RNone, err |-> e]

\* ---------------------------------------------------------------------
\* State.  Every variable but gen is a function of the connection.
VARIABLES
    gen,              \* number of request ids the generator has issued
    status,           \* "absent" | "connected" | "running" | "returned"
                      \* | "ended" | "failed" | "panicked" | "dropped"
    op,               \* "none" | "get" | "subscribe_raw" | "subscribe"
                      \* | "unsubscribe_all"
    target,           \* the type parameter T of get / subscribe
    request_id,       \* the operation's request id (0: none yet)
    subscription_id,  \* subscribe's Arc<Mutex<Option<SubscriptionID>>>
    sink,             \* text frames sent on the sink, in order
    inbound,          \* messages the filter closure was called with, in order
    transport,        \* "open" | "ended" | "error": how the inbound stream stands
    out,              \* items the returned stream has yielded, in order
    result            \* get's returned value: <<>> or <<Ok(t)>>

vars == <<gen, status, op, target, request_id, subscription_id, sink,
          inbound, transport, out, result>>

NoSubscription == "none"

InitConn(active) ==
    /\ gen = 0
    /\ status = [c \in Conns |-> IF c \in active THEN "connected" ELSE "absent"]
    /\ op = [c \in Conns |-> "none"]
    /\ target = [c \in Conns |-> 0]
    /\ request_id = [c \in Conns |-> 0]
    /\ subscription_id = [c \in Conns |-> NoSubscription]
    /\ sink = [c \in Conns |-> <<>>]
    /\ inbound = [c \in Conns |-> <<>>]
    /\ transport = [c \in Conns |-> "open"]
    /\ out = [c \in Conns |-> <<>>]
    /\ result = [c \in Conns |-> <<>>]

\* VISClient::connect has returned one client.
Init == InitConn({1})

\* VISClient::connect has returned one client per connection.
InitMulti == InitConn(Conns)

\* The start of an operation, were it to send its request twice.
RequestSendsTwice(c, name, T, r, action, sendOk) ==
    /\ status[c] = "connected"
    /\ gen' = r
    /\ op' = [op EXCEPT ![c] = name]
    /\ target' = [target EXCEPT ![c] = T]
    /\ request_id' = [request_id EXCEPT ![c] = r]
    /\ IF sendOk
       THEN /\ sink' = [sink EXCEPT ![c] =
                           @ \o <<Text(ToJsonString(action)),
                                  Text(ToJsonString(action))>>]
            /\ status' = [status EXCEPT ![c] = "running"]
       ELSE /\ sink' = sink
            /\ status' = [status EXCEPT ![c] = "panicked"]
    /\ UNCHANGED <<subscription_id, inbound, transport, out, result>>

\* ---------------------------------------------------------------------
\* The part every operation starts with: ReqID::default(), to_string, split,
\* send(..).expect(..).  A failed send panics; nothing is attached then.
Request(c, name, T, r, action, sendOk) ==
    /\ status[c] = "connected"
    /\ gen' = r
    /\ op' = [op EXCEPT ![c] = name]
    /\ target' = [target EXCEPT ![c] = T]
    /\ request_id' = [request_id EXCEPT ![c] = r]
    /\ IF sendOk
       THEN /\ sink' = [sink EXCEPT ![c] = Append(@, Text(ToJsonString(action)))]
            /\ status' = [status EXCEPT ![c] = "running"]
       ELSE /\ sink' = sink
            /\ status' = [status EXCEPT ![c] = "panicked"]
    /\ UNCHANGED <<subscription_id, inbound, transport, out, result>>

Get(c, path, T, sendOk) ==
    LET r == ReqIDDefault(gen)
    IN Request(c, "get", T, r, ActionGet(path, r), sendOk)

SubscribeRaw(c, path, filters, sendOk) ==
    LET r == ReqIDDefault(gen)
    IN Request(c, "subscribe_raw", 0, r, ActionSubscribe(path, filters, r), sendOk)

Subscribe(c, path, filters, T, sendOk) ==
    LET r == ReqIDDefault(gen)
    IN Request(c, "subscribe", T, r, ActionSubscribe(path, filters, r), sendOk)

UnsubscribeAll(c, sendOk) ==
    LET r == ReqIDDefault(gen)
    IN Request(c, "unsubscribe_all", 0, r, ActionUnsubscribeAll(r), sendOk)

\* ---------------------------------------------------------------------
\* The filter_map closures.  Each returns the closure's Option (RNone or
\* RSome(item)), or Panic where an expect() fails.
Panic == [ty |-> "Panic"]

\* get's closure: its return type is Option<T>, so the value of the matching
\* response is deserialized as Option<T>.
GetFilter(r, T, msg) ==
    IF msg.kind = "Text"
    THEN LET response == FromStr(msg.txt)
         IN IF ~response.ok
            THEN Panic
            ELSE IF response.resp.tag = "Get"
                 THEN IF r # response.resp.request_id
                      THEN RNone
                      ELSE LET v == FromValue(T + 1, response.resp.value)
                           IN IF v.ok THEN v.val ELSE Panic
                 ELSE RNone
    ELSE RNone

\* subscribe_raw's closure, were it to pass on only the subscription traffic.
SubscribeRawFilterBySubscription(msg) ==
    IF msg.kind = "Text"
    THEN LET response == FromStr(msg.txt)
         IN IF response.ok
            THEN IF response.resp.tag \in {"Subscribe", "Subscription"}
                 THEN RSome(response.resp)
                 ELSE RNone
            ELSE Panic
    ELSE RNone

SubscribeRawFilter(msg) ==
    IF msg.kind = "Text"
    THEN LET response == FromStr(msg.txt)
         IN IF response.ok THEN RSome(response.resp) ELSE Panic
    ELSE RNone

\* subscribe's closure, were a Close message to clear the subscription id.
SubscribeFilterCloseResets(r, T, cell, msg) ==
    IF msg.kind = "Text"
    THEN LET action_success == FromStr(msg.txt)
         IN IF ~action_success.ok
            THEN [ret |-> Panic, cell |-> cell]
            ELSE LET resp == action_success.resp
                 IN CASE resp.tag = "Subscribe" ->
                           IF resp.request_id # r
                           THEN [ret |-> RNone, cell |-> cell]
                           ELSE [ret |-> RNone, cell |-> resp.subscription_id]
                      [] resp.tag = "Subscription" ->
                           IF cell # resp.subscription_id
                           THEN [ret |-> RNone, cell |-> cell]
                           ELSE LET stream_value == FromValue(T, resp.value)
                                IN IF stream_value.ok
                                   THEN [ret |-> RSome(<<resp.subscription_id,
                                                         stream_value.val>>),
                                         cell |-> cell]
                                   ELSE [ret |-> Panic, cell |-> cell]
                      [] OTHER -> [ret |-> RNone, cell |-> cell]
    ELSE IF msg.kind = "Close"
         THEN [ret |-> RNone, cell |-> "none"]
         ELSE [ret |-> RNone, cell |-> cell]

\* subscribe's closure, were it to take the subscription id of any
\* SubscribeAck, whatever its request id.
SubscribeFilterAnyAck(r, T, cell, msg) ==
    IF msg.kind = "Text"
    THEN LET action_success == FromStr(msg.txt)
         IN IF ~action_success.ok
            THEN [ret |-> Panic, cell |-> cell]
            ELSE LET resp == action_success.resp
                 IN CASE resp.tag = "Subscribe" ->
                           [ret |-> RNone, cell |-> resp.subscription_id]
                      [] resp.tag = "Subscription" ->
                           IF cell # resp.subscription_id
                           THEN [ret |-> RNone, cell |-> cell]
                           ELSE LET stream_value == FromValue(T, resp.value)
                                IN IF stream_value.ok
                                   THEN [ret |-> RSome(<<resp.subscription_id,
                                                         stream_value.val>>),
                                         cell |-> cell]
                                   ELSE [ret |-> Panic, cell |-> cell]
                      [] OTHER -> [ret |-> RNone, cell |-> cell]
    ELSE [ret |-> RNone, cell |-> cell]

\* subscribe's closure: [ret |-> what it returns, cell |-> the subscription
\* id cell after the call].
SubscribeFilter(r, T, cell, msg) ==
    IF msg.kind = "Text"
    THEN LET action_success == FromStr(msg.txt)
         IN IF ~action_success.ok
            THEN [ret |-> Panic, cell |-> cell]
            ELSE LET resp == action_success.resp
                 IN CASE resp.tag = "Subscribe" ->
                           IF resp.request_id # r
                           THEN [ret |-> RNone, cell |-> cell]
                           ELSE [ret |-> RNone, cell |-> resp.subscription_id]
                      [] resp.tag = "Subscription" ->
                           IF cell # resp.subscription_id
                           THEN [ret |-> RNone, cell |-> cell]
                           ELSE LET stream_value == FromValue(T, resp.value)
                                IN IF stream_value.ok
                                   THEN [ret |-> RSome(<<resp.subscription_id,
                                                         stream_value.val>>),
                                         cell |-> cell]
                                   ELSE [ret |-> Panic, cell |-> cell]
                      [] OTHER -> [ret |-> RNone, cell |-> cell]
    ELSE [ret |-> RNone, cell |-> cell]

\* unsubscribe_all's closure, were it not to compare the request id.
UnsubscribeAllFilterAnyId(r, msg) ==
    IF msg.kind = "Text"
    THEN LET action_success == FromStr(msg.txt)
         IN IF ~action_success.ok
            THEN Panic
            ELSE IF action_success.resp.tag = "UnsubscribeAll"
                 THEN RSome(<<>>)
                 ELSE RNone
    ELSE RNone

UnsubscribeAllFilter(r, msg) ==
    IF msg.kind = "Text"
    THEN LET action_success == FromStr(msg.txt)
         IN IF ~action_success.ok
            THEN Panic
            ELSE IF action_success.resp.tag = "UnsubscribeAll"
                 THEN IF action_success.resp.request_id # r
                      THEN RNone
                      ELSE RSome(<<>>)
                 ELSE RNone
    ELSE RNone

\* ---------------------------------------------------------------------
\* Delivery of one inbound message, and the end of the inbound stream.
Running(c, name) ==
    /\ status[c] = "running"
    /\ op[c] = name
    /\ transport[c] = "open"

\* get: one message reaches the closure while get awaits get_stream.next();
\* the first Some(t) is unwrapped twice and returned as Ok(t).
GetRecv(c, msg) ==
    /\ Running(c, "get")
    /\ inbound' = [inbound EXCEPT ![c] = Append(@, msg)]
    /\ LET ret == GetFilter(request_id[c], target[c], msg)
       IN CASE ret = Panic ->
                 /\ status' = [status EXCEPT ![c] = "panicked"]
                 /\ result' = result
            [] ret = RNone ->
                 UNCHANGED <<status, result>>
            [] OTHER ->
                 /\ status' = [status EXCEPT ![c] = "returned"]
                 /\ result' = [result EXCEPT ![c] = <<Item(ret.v)>>]
    /\ UNCHANGED <<gen, op, target, request_id, subscription_id, sink,
                   transport, out>>

\* get: the stream ends (next() is None) or fails (next() is Some(Err));
\* get_response.unwrap().unwrap() panics in both cases.
GetClose(c, how) ==
    /\ Running(c, "get")
    /\ transport' = [transport EXCEPT ![c] = how]
    /\ status' = [status EXCEPT ![c] = "panicked"]
    /\ UNCHANGED <<gen, op, target, request_id, subscription_id, sink,
                   inbound, out, result>>

\* A returned stream: filter_map passes Some(item) on, polls again on None.
StreamRecv(c, msg, ret, cell) ==
    /\ inbound' = [inbound EXCEPT ![c] = Append(@, msg)]
    /\ subscription_id' = [subscription_id EXCEPT ![c] = cell]
    /\ CASE ret = Panic ->
              /\ status' = [status EXCEPT ![c] = "panicked"]
              /\ out' = out
         [] ret = RNone ->
              UNCHANGED <<status, out>>
         [] OTHER ->
              /\ status' = status
              /\ out' = [out EXCEPT ![c] = Append(@, Item(ret.v))]
    /\ UNCHANGED <<gen, op, target, request_id, sink, transport, result>>

\* A returned stream: the end of the inbound stream ends it; an inbound
\* error is passed on through map_err(Into::into).
StreamClose(c, how) ==
    /\ transport' = [transport EXCEPT ![c] = how]
    /\ IF how = "error"
       THEN /\ out' = [out EXCEPT ![c] = Append(@, ErrItem("WebSocketError"))]
            /\ status' = [status EXCEPT ![c] = "failed"]
       ELSE /\ out' = out
            /\ status' = [status EXCEPT ![c] = "ended"]
    /\ UNCHANGED <<gen, op, target, request_id, subscription_id, sink,
                   inbound, result>>

SubscribeRawRecv(c, msg) ==
    /\ Running(c, "subscribe_raw")
    /\ StreamRecv(c, msg, SubscribeRawFilter(msg), subscription_id[c])

SubscribeRawClose(c, how) ==
    /\ Running(c, "subscribe_raw")
    /\ StreamClose(c, how)

SubscribeRecv(c, msg) ==
    /\ Running(c, "subscribe")
    /\ LET f == SubscribeFilter(request_id[c], target[c], subscription_id[c], msg)
       IN StreamRecv(c, msg, f.ret, f.cell)

SubscribeClose(c, how) ==
    /\ Running(c, "subscribe")
    /\ StreamClose(c, how)

UnsubscribeAllRecv(c, msg) ==
    /\ Running(c, "unsubscribe_all")
    /\ StreamRecv(c, msg, UnsubscribeAllFilter(request_id[c], msg), subscription_id[c])

UnsubscribeAllClose(c, how) ==
    /\ Running(c, "unsubscribe_all")
    /\ StreamClose(c, how)

\* The caller drops a returned stream.  The sink was moved into send() and
\* is gone by then, and no type of the client implements Drop: the inbound
\* half is released and nothing is sent.
DropStream(c) ==
    /\ status[c] = "running"
    /\ op[c] \in {"subscribe_raw", "subscribe", "unsubscribe_all"}
    /\ transport[c] = "open"
    /\ status' = [status EXCEPT ![c] = "dropped"]
    /\ UNCHANGED <<gen, op, target, request_id, subscription_id, sink,
                   inbound, transport, out, result>>

\* ---------------------------------------------------------------------
\* One connection, every kind of inbound message.
Next ==
    \/ \E path \in Paths, T \in TargetTypes, sendOk \in BOOLEAN :
          Get(1, path, T, sendOk)
    \/ \E path \in Paths, filters \in Filters, sendOk \in BOOLEAN :
          SubscribeRaw(1, path, filters, sendOk)
    \/ \E path \in Paths, filters \in Filters, T \in TargetTypes, sendOk \in BOOLEAN :
          Subscribe(1, path, filters, T, sendOk)
    \/ \E sendOk \in BOOLEAN : UnsubscribeAll(1, sendOk)
    \/ \E msg \in Messages : Len(inbound[1]) < MaxFrames /\ GetRecv(1, msg)
    \/ \E how \in Closings : Len(inbound[1]) < MaxFrames /\ GetClose(1, how)
    \/ \E msg \in Messages : Len(inbound[1]) < MaxFrames /\ SubscribeRawRecv(1, msg)
    \/ \E how \in Closings : Len(inbound[1]) < MaxFrames /\ SubscribeRawClose(1, how)
    \/ \E msg \in Messages : Len(inbound[1]) < MaxFrames /\ SubscribeRecv(1, msg)
    \/ \E how \in Closings : Len(inbound[1]) < MaxFrames /\ SubscribeClose(1, how)
    \/ \E msg \in Messages : Len(inbound[1]) < MaxFrames /\ UnsubscribeAllRecv(1, msg)
    \/ \E how \in Closings : Len(inbound[1]) < MaxFrames /\ UnsubscribeAllClose(1, how)
    \/ Len(inbound[1]) < MaxFrames /\ DropStream(1)

Spec == Init /\ [][Next]_vars

\* ---------------------------------------------------------------------
\* Several connections side by side, sharing the request id generator.  The
\* server answers the requests that were sent: an inbound message is the
\* success response to the request of some connection (delivered on any
\* connection), or a subscription update.
AnswerTo(c) ==
    CASE op[c] = "get" -> JsonGet(request_id[c], JNum(1))
      [] op[c] = "unsubscribe_all" -> JsonUnsubscribeAll(request_id[c])
      [] OTHER -> JsonSubscribe(request_id[c], "S1")

MultiMessages ==
    {Text(AnswerTo(c)) : c \in {d \in Conns : sink[d] # <<>>}}
    \cup {Text(JsonSubscription("S1", JNum(1)))}

RECURSIVE Delivered(_)
Delivered(n) == IF n = 0 THEN 0 ELSE Len(inbound[n]) + Delivered(n - 1)

MoreMulti == Delivered(MaxConn) < MaxFramesMulti

NextMulti ==
    \/ \E c \in Conns, path \in Paths : Get(c, path, 0, TRUE)
    \/ \E c \in Conns, path \in Paths, filters \in Filters :
          SubscribeRaw(c, path, filters, TRUE)
    \/ \E c \in Conns, path \in Paths, filters \in Filters :
          Subscribe(c, path, filters, 0, TRUE)
    \/ \E c \in Conns : UnsubscribeAll(c, TRUE)
    \/ MoreMulti /\ \E c \in Conns, msg \in MultiMessages : GetRecv(c, msg)
    \/ MoreMulti /\ \E c \in Conns, msg \in MultiMessages : SubscribeRawRecv(c, msg)
    \/ MoreMulti /\ \E c \in Conns, msg \in MultiMessages : SubscribeRecv(c, msg)
    \/ MoreMulti /\ \E c \in Conns, msg \in MultiMessages : UnsubscribeAllRecv(c, msg)

SpecMulti == InitMulti /\ [][NextMulti]_vars

\* =====================================================================
\* Properties.
\* ---------------------------------------------------------------------
Decodes(msg) == msg.kind = "Text" /\ FromStr(msg.txt).ok
MalformedText(msg) == msg.kind = "Text" /\ ~FromStr(msg.txt).ok
Resp(msg) == FromStr(msg.txt).resp
IsResp(msg, tag) == Decodes(msg) /\ Resp(msg).tag = tag

Last(seq) == seq[Len(seq)]
Front(seq) == SubSeq(seq, 1, Len(seq) - 1)

\* The items of the successes among the items of a returned stream.
RECURSIVE OkItems(_)
OkItems(seq) ==
    IF seq = <<>>
    THEN <<>>
    ELSE IF seq[1].ok
         THEN <<seq[1].item>> \o OkItems(Tail(seq))
         ELSE OkItems(Tail(seq))

\* The index of the first message of seq that is the SubscribeAck of
\* request r (0: there is none).
FirstAck(seq, r) ==
    LET acks == {i \in 1 .. Len(seq) :
                    IsResp(seq[i], "Subscribe") /\ Resp(seq[i]).request_id = r}
    IN IF acks = {} THEN 0 ELSE CHOOSE i \in acks : \A j \in acks : i <= j

\* The updates of subscription s among seq, as items (s, value as T).
RECURSIVE UpdatesOf(_, _, _)
UpdatesOf(seq, s, T) ==
    IF seq = <<>>
    THEN <<>>
    ELSE IF IsResp(seq[1], "Subscription") /\ Resp(seq[1]).subscription_id = s
         THEN <<(<<s, FromValue(T, Resp(seq[1]).value).val>>)>>
              \o UpdatesOf(Tail(seq), s, T)
         ELSE UpdatesOf(Tail(seq), s, T)

\* The responses seq decodes to, in order.
RECURSIVE DecodedOf(_)
DecodedOf(seq) ==
    IF seq = <<>>
    THEN <<>>
    ELSE IF Decodes(seq[1])
         THEN <<Resp(seq[1])>> \o DecodedOf(Tail(seq))
         ELSE DecodedOf(Tail(seq))

\* The number of UnsubscribeAllAck messages of request r among seq.
RECURSIVE AcksOfUnsubscribeAll(_, _)
AcksOfUnsubscribeAll(seq, r) ==
    IF seq = <<>>
    THEN 0
    ELSE (IF IsResp(seq[1], "UnsubscribeAll") /\ Resp(seq[1]).request_id = r
          THEN 1 ELSE 0)
         + AcksOfUnsubscribeAll(Tail(seq), r)

\* ---------------------------------------------------------------------
\* C1.  get, after any number of GetAck messages of other request ids and
\* then the GetAck of its own request id whose value V is a value of T, has
\* returned V; the earlier GetAcks are neither the result nor a failure.
C1_GetResolvesToMatchingValue ==
    \A c \in Conns :
        (/\ op[c] = "get"
         /\ inbound[c] # <<>>
         /\ \A i \in 1 .. Len(inbound[c]) - 1 :
               /\ IsResp(inbound[c][i], "Get")
               /\ Resp(inbound[c][i]).request_id # request_id[c]
         /\ IsResp(Last(inbound[c]), "Get")
         /\ Resp(Last(inbound[c])).request_id = request_id[c]
         /\ FromValue(target[c], Resp(Last(inbound[c])).value).ok)
        => /\ status[c] = "returned"
           /\ result[c] =
                <<Item(FromValue(target[c], Resp(Last(inbound[c])).value).val)>>

\* ---------------------------------------------------------------------
\* C2.  subscribe, once the SubscribeAck of its request id has assigned the
\* subscription id S, has yielded exactly the later updates of S, as
\* (S, value), in arrival order; every other message is dropped.  Stated for
\* inbound sequences without malformed text and without an update of S whose
\* value is no value of T.
C2_SubscribeOutputIsUpdatesOfAssignedId ==
    \A c \in Conns :
        LET k == FirstAck(inbound[c], request_id[c])
            S == Resp(inbound[c][k]).subscription_id
            later == SubSeq(inbound[c], k + 1, Len(inbound[c]))
        IN (/\ op[c] = "subscribe"
            /\ k # 0
            /\ \A i \in 1 .. Len(inbound[c]) : ~MalformedText(inbound[c][i])
            /\ \A i \in 1 .. Len(later) :
                  (IsResp(later[i], "Subscription")
                   /\ Resp(later[i]).subscription_id = S)
                  => FromValue(target[c], Resp(later[i]).value).ok)
           => OkItems(out[c]) = UpdatesOf(later, S, target[c])

\* ---------------------------------------------------------------------
\* C3.  subscribe, as long as the SubscribeAck of its request id has not been
\* received, and when it is received, has yielded nothing and has not
\* failed: every message before the ack is discarded without error.
C3_AwaitingAckEmitsNothing ==
    \A c \in Conns :
        (/\ op[c] = "subscribe"
         /\ inbound[c] # <<>>
         /\ FirstAck(Front(inbound[c]), request_id[c]) = 0)
        => /\ OkItems(out[c]) = <<>>
           /\ status[c] # "panicked"

\* ---------------------------------------------------------------------
\* C4.  get and unsubscribe_all, when the inbound stream ends or fails
\* before a response of their request id has arrived, hand an error value to
\* the caller: no panic, no empty result.
NoMatchYet(c) ==
    \A i \in 1 .. Len(inbound[c]) :
        ~(/\ IsResp(inbound[c][i], IF op[c] = "get" THEN "Get" ELSE "UnsubscribeAll")
          /\ Resp(inbound[c][i]).request_id = request_id[c])

C4_CloseBeforeMatchIsExplicitError ==
    \A c \in Conns :
        (/\ op[c] \in {"get", "unsubscribe_all"}
         /\ transport[c] # "open"
         /\ NoMatchYet(c)
         /\ \A i \in 1 .. Len(inbound[c]) : ~MalformedText(inbound[c][i]))
        => /\ status[c] = "failed"
           /\ IF op[c] = "get"
              THEN result[c] # <<>> /\ ~result[c][1].ok
              ELSE out[c] # <<>> /\ ~Last(out[c]).ok

\* ---------------------------------------------------------------------
\* C5.  get and subscribe drop a malformed text message: the operation is
\* still running after it.
C5_MalformedTextIsDropped ==
    \A c \in Conns :
        (/\ op[c] \in {"get", "subscribe"}
         /\ inbound[c] # <<>>
         /\ MalformedText(Last(inbound[c]))
         /\ transport[c] = "open")
        => status[c] = "running"

\* ---------------------------------------------------------------------
\* C6.  get, when the GetAck of its request id carries a value that is no
\* value of T, returns an error value (SerdeError) to the caller.
C6_UnconvertibleValueIsProtocolError ==
    \A c \in Conns :
        (/\ op[c] = "get"
         /\ inbound[c] # <<>>
         /\ IsResp(Last(inbound[c]), "Get")
         /\ Resp(Last(inbound[c])).request_id = request_id[c]
         /\ ~FromValue(target[c], Resp(Last(inbound[c])).value).ok
         /\ transport[c] = "open")
        => /\ status[c] = "failed"
           /\ result[c] = <<ErrItem("SerdeError")>>

C8_RequestIdsUnique ==
    \A c \in Conns :
        op[c] # "none"
        => /\ request_id[c] # 0
           /\ \A d \in Conns \ {c} : op[d] # "none" => request_id[d] # request_id[c]
           /\ \A i \in 1 .. Len(sink[c]) : sink[c][i].txt.requestId = request_id[c]

\* Two operations are outstanding at once, each with its request sent.
C8_Witness ==
    \E c \in Conns, d \in Conns :
        /\ c # d
        /\ status[c] = "running" /\ status[d] = "running"
        /\ sink[c] # <<>> /\ sink[d] # <<>>
        /\ op[c] = "get" /\ op[d] = "unsubscribe_all"

\* ---------------------------------------------------------------------
\* C9.  The stream subscribe_raw returns has yielded every message that
\* decodes to a response, whatever its kind and ids, once each and in
\* arrival order, and nothing else.
C9_RawYieldsEveryDecodedResponse ==
    \A c \in Conns :
        op[c] = "subscribe_raw" => OkItems(out[c]) = DecodedOf(inbound[c])

\* subscribe_raw has yielded a GetAck of another request id and then a
\* subscription update, with a non-text message in between.
C9_Witness ==
    \E c \in Conns :
        /\ op[c] = "subscribe_raw"
        /\ Len(inbound[c]) = 3
        /\ IsResp(inbound[c][1], "Get")
        /\ Resp(inbound[c][1]).request_id # request_id[c]
        /\ inbound[c][2].kind = "Ping"
        /\ IsResp(inbound[c][3], "Subscription")
        /\ Len(out[c]) = 2

\* ---------------------------------------------------------------------
\* C10.  In subscribe_raw a text message that does not decode ends the
\* returned stream with an error item (SerdeError).
C10_RawDecodeFailureIsErrorItem ==
    \A c \in Conns :
        (/\ op[c] = "subscribe_raw"
         /\ inbound[c] # <<>>
         /\ MalformedText(Last(inbound[c]))
         /\ transport[c] = "open")
        => /\ status[c] = "failed"
           /\ out[c] # <<>>
           /\ Last(out[c]) = ErrItem("SerdeError")

\* ---------------------------------------------------------------------
\* C11.  A message that is not Text (Binary, Ping, Pong, Close), taken by
\* any of the four operations, yields nothing, raises no error and leaves
\* the operation as it was, the subscription id cell included.
C11_NonTextIsIgnored ==
    [][\A c \in Conns :
          (/\ inbound'[c] # inbound[c]
           /\ Last(inbound'[c]).kind # "Text")
          => /\ out'[c] = out[c]
             /\ result'[c] = result[c]
             /\ status'[c] = status[c]
             /\ subscription_id'[c] = subscription_id[c]]_vars

\* subscribe has taken its ack, then a Close message, then an update of the
\* assigned subscription, and has yielded that update.
C11_Witness ==
    \E c \in Conns :
        /\ op[c] = "subscribe"
        /\ Len(inbound[c]) = 3
        /\ IsResp(inbound[c][1], "Subscribe")
        /\ inbound[c][2].kind = "Close"
        /\ IsResp(inbound[c][3], "Subscription")
        /\ subscription_id[c] # NoSubscription
        /\ Len(out[c]) = 1

\* ---------------------------------------------------------------------
\* C12.  subscribe, when an update of the recorded subscription id carries a
\* value that is no value of T, ends the returned stream with an error item
\* (SerdeError).
C12_UnconvertibleUpdateIsErrorItem ==
    \A c \in Conns :
        (/\ op[c] = "subscribe"
         /\ inbound[c] # <<>>
         /\ IsResp(Last(inbound[c]), "Subscription")
         /\ Resp(Last(inbound[c])).subscription_id = subscription_id[c]
         /\ ~FromValue(target[c], Resp(Last(inbound[c])).value).ok
         /\ transport[c] = "open"
         /\ status[c] # "dropped")
        => /\ status[c] = "failed"
           /\ out[c] # <<>>
           /\ Last(out[c]) = ErrItem("SerdeError")

\* ---------------------------------------------------------------------
\* C13.  unsubscribe_all issued twice, on two connections one after the
\* other: each call yields () for the acknowledgement of its own request id
\* and for nothing else, whatever the other call has sent and received, and
\* is not stopped by it.
C13_UnsubscribeAllTwice ==
    \A c \in Conns, d \in Conns :
        (/\ c # d
         /\ op[c] = "unsubscribe_all"
         /\ op[d] = "unsubscribe_all"
         /\ request_id[c] < request_id[d])
        => /\ status[d] = "running"
           /\ out[d] = [i \in 1 .. AcksOfUnsubscribeAll(inbound[d], request_id[d])
                          |-> Item(<<>>)]
           /\ out[c] = [i \in 1 .. AcksOfUnsubscribeAll(inbound[c], request_id[c])
                          |-> Item(<<>>)]

\* Both calls have been acknowledged and each has yielded its ().
C13_Witness ==
    \E c \in Conns, d \in Conns :
        /\ op[c] = "unsubscribe_all" /\ op[d] = "unsubscribe_all"
        /\ request_id[c] < request_id[d]
        /\ inbound[c] = <<Text(JsonUnsubscribeAll(request_id[c]))>>
        /\ inbound[d] = <<Text(JsonUnsubscribeAll(request_id[d]))>>
        /\ out[c] = <<Item(<<>>)>>
        /\ out[d] = <<Item(<<>>)>>

\* ---------------------------------------------------------------------
\* C14.  The subscription id cell of subscribe is empty until the first
\* SubscribeAck of its request id, and from then on holds the id that ack
\* assigned: no later message changes it.
C14_CellWrittenOnce ==
    \A c \in Conns :
        op[c] = "subscribe"
        => LET k == FirstAck(inbound[c], request_id[c])
           IN IF k = 0
              THEN subscription_id[c] = NoSubscription
              ELSE subscription_id[c] = Resp(inbound[c][k]).subscription_id

\* ---------------------------------------------------------------------
\* C15.  get ends with the first GetAck of its request id, whatever its
\* value: once such a message has been taken get is no longer waiting, and
\* no message was taken after it.
HasMatchingGetAck(seq, r) ==
    \E i \in 1 .. Len(seq) :
        IsResp(seq[i], "Get") /\ Resp(seq[i]).request_id = r

C15_FirstMatchingGetAckEndsGet ==
    \A c \in Conns :
        (op[c] = "get" /\ HasMatchingGetAck(inbound[c], request_id[c]))
        => /\ status[c] # "running"
           /\ ~HasMatchingGetAck(Front(inbound[c]), request_id[c])

\* ---------------------------------------------------------------------
\* C16.  An operation never has more than one frame on the sink; one that
\* has got past its send has exactly one, the request it encodes with its
\* request id, and it was sent before any inbound message was taken.
\* Ending or dropping the returned stream adds nothing.
RequestTag(name) ==
    CASE name = "get" -> "get"
      [] name = "unsubscribe_all" -> "unsubscribeAll"
      [] OTHER -> "subscribe"

C16_ExactlyOneRequestSent ==
    \A c \in Conns :
        /\ Len(sink[c]) <= 1
        /\ (inbound[c] # <<>>
            \/ status[c] \in {"running", "returned", "ended", "failed", "dropped"})
           => /\ Len(sink[c]) = 1
              /\ sink[c][1].kind = "Text"
              /\ sink[c][1].txt.action = RequestTag(op[c])
              /\ sink[c][1].txt.requestId = request_id[c]

\* A subscription that has yielded an update was dropped.
C16_Witness ==
    \E c \in Conns :
        /\ op[c] = "subscribe"
        /\ status[c] = "dropped"
        /\ Len(out[c]) = 1
        /\ Len(sink[c]) = 1

\* ---------------------------------------------------------------------
\* C17.  In subscribe, a response other than the SubscribeAck of its request
\* id leaves the subscription id cell unchanged, and a response yields an
\* item only if it is an update of the recorded subscription id.
C17_OnlyMatchingAckWritesCell ==
    [][\A c \in Conns :
          (/\ op[c] = "subscribe"
           /\ inbound'[c] # inbound[c]
           /\ Decodes(Last(inbound'[c])))
          => LET msg == Last(inbound'[c])
             IN /\ ~(IsResp(msg, "Subscribe")
                     /\ Resp(msg).request_id = request_id[c])
                   => subscription_id'[c] = subscription_id[c]
                /\ out'[c] # out[c]
                   => /\ IsResp(msg, "Subscription")
                      /\ Resp(msg).subscription_id = subscription_id[c]
                      /\ subscription_id'[c] = subscription_id[c]]_vars

\* subscribe has taken its ack, then the SubscribeAck of another request with
\* another subscription id, then an update of its own subscription, and has
\* yielded that update.
C17_Witness ==
    \E c \in Conns :
        /\ op[c] = "subscribe"
        /\ Len(inbound[c]) = 3
        /\ IsResp(inbound[c][1], "Subscribe")
        /\ Resp(inbound[c][1]).request_id = request_id[c]
        /\ IsResp(inbound[c][2], "Subscribe")
        /\ Resp(inbound[c][2]).request_id # request_id[c]
        /\ Resp(inbound[c][2]).subscription_id # subscription_id[c]
        /\ IsResp(inbound[c][3], "Subscription")
        /\ out[c] = <<Item(<<subscription_id[c], RU32(1)>>)>>

====
